---------------------------- MODULE Spec2Model ----------------------------
(***************************************************************************)
(* A model of the block codec and oblivious-storage utility layer of       *)
(* PartitionORAM (src/base/oram_utils.cc): EncryptBlock / DecryptBlock,    *)
(* PadStash, SampleRandomBucket, the (de)serialization of buckets and the  *)
(* LZ4 compression adapter.                                                *)
(*                                                                         *)
(* Every routine of the file is a blocking procedure without state of its  *)
(* own, so each gets a specification whose Init draws the arguments from   *)
(* bounded sets and whose actions run the routine as a whole.  The random  *)
(* source, the AEAD provider's status codes and the shuffle permutation    *)
(* are inputs chosen with \E.                                              *)
(*                                                                         *)
(* Machine integers are kept with a width.  uint8_t is 8 bits wide as in   *)
(* the program; header.block_id (a fixed-width unsigned integer declared   *)
(* in a header outside src/) and the 64-bit size_t are scaled down to      *)
(* ID_BYTES bytes and SIZE_T_BITS bits, because the model checker's        *)
(* integers are 32 bits wide; wrap-around is kept.                         *)
(***************************************************************************)
EXTENDS Integers, Sequences, FiniteSets, TLC

VARIABLES
  pc,           \* position of the caller: which routine has returned or aborted
  block,        \* codec: the block the codec works on (oram_block_t*)
  entry,        \* codec: block as it was when EncryptBlock was called
  sent,         \* codec: block as EncryptBlock returned it
  recv,         \* codec: block as it was handed to DecryptBlock
  status,       \* codec: status the provider's Decrypt reported last
  stash,        \* PadStash: the stash (p_oram_stash_t*)
  prev,         \* PadStash: the stash at the entry of the latest call
  bucket_size,  \* PadStash: its second argument
  args,         \* SampleRandomBucket: [size, tree_size, initial_offset]
  bucket,       \* SampleRandomBucket: the returned bucket
  payload,      \* compression: the bytes given to DataCompress
  cbuf,         \* compression: the compressed bytes (the caller's buffer)
  out,          \* compression: DataDecompress's output buffer
  lz,           \* compression: what LZ4_decompress_safe returned (an int)
  ret,          \* compression: what DataDecompress returned (a size_t)
  sbucket,      \* serialization: the bucket given to SerializeToStringVector
  strs,         \* serialization: the vector of strings
  dbucket       \* serialization: the bucket DeserializeFromStringVector returned

vars == <<pc, block, entry, sent, recv, status, stash, prev, bucket_size,
          args, bucket, payload, cbuf, out, lz, ret, sbucket, strs, dbucket>>

codecVars  == <<block, entry, sent, recv, status>>
stashVars  == <<stash, prev, bucket_size>>
sampleVars == <<args, bucket>>
lz4Vars    == <<payload, cbuf, out, lz, ret>>
serialVars == <<sbucket, strs, dbucket>>

---------------------------------------------------------------------------
(* Bounds of the model *)

\* bytes of a block's payload (DEFAULT_ORAM_DATA_SIZE, scaled down)
DataSize == 2
\* longest stash PadStash is given
MaxStash == 2
\* largest bucket_size PadStash is given
MaxBucketSize == 3
\* largest tree_size SampleRandomBucket is given
MaxTreeSize == 3
\* largest size SampleRandomBucket is given
MaxSize == 8
\* longest bucket that is serialized
MaxBucketLen == 2
\* bytes of the payload given to DataCompress
CompressLen == 5
\* bytes of header.block_id (scaled down)
ID_BYTES == 2
\* width of size_t (64 bits in the program, scaled down)
SIZE_T_BITS == 24

---------------------------------------------------------------------------
(* Machine integers *)

RECURSIVE Pow2(_)
Pow2(n) == IF n = 0 THEN 1 ELSE 2 * Pow2(n - 1)

BlockIdBits == 8 * ID_BYTES

\* conversions to uint8_t, to the type of header.block_id and to size_t
ToUint8(x)   == x % Pow2(8)
ToBlockId(x) == x % Pow2(BlockIdBits)
ToSizeT(x)   == x % Pow2(SIZE_T_BITS)

Min(a, b) == IF a < b THEN a ELSE b
Max(a, b) == IF a > b THEN a ELSE b

Fill(n, b) == [i \in 1..n |-> b]

---------------------------------------------------------------------------
(* The block: partition_oram::oram_block_t *)

IV_SIZE  == 12
MAC_SIZE == 16

kDummy  == 0
kNormal == 1

DEFAULT_ORAM_DATA_SIZE == DataSize
ORAM_BLOCK_SIZE == ID_BYTES + 1 + IV_SIZE + MAC_SIZE + DEFAULT_ORAM_DATA_SIZE

Block(id, type, iv, mac, data) ==
  [block_id |-> id, type |-> type, iv |-> iv, mac_tag |-> mac, data |-> data]

NoBlock == Block(0, kDummy, Fill(IV_SIZE, 0), Fill(MAC_SIZE, 0),
                 Fill(DEFAULT_ORAM_DATA_SIZE, 0))

\* memcpy(dst, src, Len(src)) into the fixed-size array dst
Memcpy(dst, src) ==
  [i \in 1..Len(dst) |-> IF i <= Len(src) THEN src[i] ELSE dst[i]]

(* The bytes of the structure in memory: header (block_id little-endian,   *)
(* type, iv, mac_tag), then data.                                          *)
RECURSIVE IdToBytes(_, _)
IdToBytes(id, n) ==
  IF n = 0 THEN <<>> ELSE <<id % 256>> \o IdToBytes(id \div 256, n - 1)

RECURSIVE IdFromBytes(_)
IdFromBytes(s) ==
  IF s = <<>> THEN 0 ELSE Head(s) + 256 * IdFromBytes(Tail(s))

BlockToBytes(b) ==
  IdToBytes(b.block_id, ID_BYTES) \o <<b.type>> \o b.iv \o b.mac_tag \o b.data

BytesToBlock(s) ==
  LET h == ID_BYTES + 1
  IN  Block(IdFromBytes(SubSeq(s, 1, ID_BYTES)),
            s[h],
            SubSeq(s, h + 1, h + IV_SIZE),
            SubSeq(s, h + IV_SIZE + 1, h + IV_SIZE + MAC_SIZE),
            SubSeq(s, h + IV_SIZE + MAC_SIZE + 1, Len(s)))

---------------------------------------------------------------------------
(* The cryptographic provider: oram_crypto::Cryptor (an AEAD under a fixed *)
(* session key).  Encrypt returns ciphertext || tag, the tag being the     *)
(* trailing MAC_SIZE bytes; Decrypt verifies the tag and reports a status. *)

RECURSIVE WeightedSum(_, _)
WeightedSum(s, i) ==
  IF i > Len(s) THEN 0 ELSE (2 * i + 1) * s[i] + WeightedSum(s, i + 1)

KeyStream(iv, i) == ToUint8(7 * iv[((i - 1) % IV_SIZE) + 1] + 13 * i + 5)

MacOf(ct, iv) ==
  [j \in 1..MAC_SIZE |->
     ToUint8(WeightedSum(ct, 1) + WeightedSum(iv, 1) + 31 * j + Len(ct))]

CryptorEncrypt(plain, iv) ==
  LET ct == [i \in 1..Len(plain) |-> ToUint8(plain[i] + KeyStream(iv, i))]
  IN  ct \o MacOf(ct, iv)

CryptorDecrypt(enc, iv) ==
  LET n   == Len(enc) - MAC_SIZE
      ct  == SubSeq(enc, 1, n)
      tag == SubSeq(enc, n + 1, Len(enc))
  IN  IF tag = MacOf(ct, iv)
      THEN [status |-> "kOK",
            dec |-> [i \in 1..n |-> ToUint8(ct[i] - KeyStream(iv, i))]]
      ELSE [status |-> "kInvalidOperation", dec |-> <<>>]

---------------------------------------------------------------------------
(* Block codec *)

\* CheckStatus aborts unless the status is kOK
CheckStatus(st) == st = "kOK"

EncryptBlock_EncryptsEveryType(b, rndStatus, rndIv, encStatus) ==
  IF ~CheckStatus(rndStatus)
  THEN [aborted |-> TRUE, block |-> b]
  ELSE LET withIv == [b EXCEPT !.iv = rndIv]
           enc    == CryptorEncrypt(b.data, rndIv)
       IN  IF ~CheckStatus(encStatus)
           THEN [aborted |-> TRUE, block |-> withIv]
           ELSE [aborted |-> FALSE,
                 block |-> [withIv EXCEPT
                   !.mac_tag = SubSeq(enc, Len(enc) - MAC_SIZE + 1, Len(enc)),
                   !.data = Memcpy(b.data, SubSeq(enc, 1, Len(enc) - MAC_SIZE))]]

\* rndStatus, rndIv: what cryptor->RandomBytes(iv, 12) reports and writes;
\* encStatus: what cryptor->Encrypt reports.
EncryptBlock(b, rndStatus, rndIv, encStatus) ==
  IF b.type # kNormal
  THEN [aborted |-> FALSE, block |-> b]
  ELSE IF ~CheckStatus(rndStatus)
  THEN [aborted |-> TRUE, block |-> b]
  ELSE LET withIv == [b EXCEPT !.iv = rndIv]
           enc    == CryptorEncrypt(b.data, rndIv)
       IN  IF ~CheckStatus(encStatus)
           THEN [aborted |-> TRUE, block |-> withIv]
           ELSE [aborted |-> FALSE,
                 block |-> [withIv EXCEPT
                   !.mac_tag = SubSeq(enc, Len(enc) - MAC_SIZE + 1, Len(enc)),
                   !.data = Memcpy(b.data, SubSeq(enc, 1, Len(enc) - MAC_SIZE))]]

DecryptBlock_IgnoresStatus(b) ==
  IF b.type # kNormal
  THEN [aborted |-> FALSE, block |-> b, status |-> "none"]
  ELSE LET enc_data == b.data \o b.mac_tag
           r        == CryptorDecrypt(enc_data, b.iv)
       IN  [aborted |-> FALSE,
            block |-> [b EXCEPT !.data = Memcpy(b.data, r.dec)],
            status |-> r.status]

DecryptBlock(b) ==
  IF b.type # kNormal
  THEN [aborted |-> FALSE, block |-> b, status |-> "none"]
  ELSE LET enc_data == b.data \o b.mac_tag
           r        == CryptorDecrypt(enc_data, b.iv)
       IN  IF ~CheckStatus(r.status)
           THEN [aborted |-> TRUE, block |-> b, status |-> r.status]
           ELSE [aborted |-> FALSE,
                 block |-> [b EXCEPT !.data = Memcpy(b.data, r.dec)],
                 status |-> r.status]

---------------------------------------------------------------------------
(* Specification of the codec: a block is encrypted, stored where it may   *)
(* be altered, and decrypted.                                              *)

PlainBytes  == {0, 1, 255}
TypeBytes   == {kNormal, kDummy, 2}
RandomIvs   == {Fill(IV_SIZE, 3), Fill(IV_SIZE, 200)}
StatusCodes == {"kOK", "kInvalidOperation"}
FlipDeltas  == {1, 128}

InputBlocks ==
  {Block(id, t, Fill(IV_SIZE, 0), Fill(MAC_SIZE, 0), d) :
     id \in {7}, t \in TypeBytes,
     d \in [1..DEFAULT_ORAM_DATA_SIZE -> PlainBytes]}

InitOthers(own) ==
  /\ "codec" \in own \/
       (block = NoBlock /\ entry = NoBlock /\ sent = NoBlock /\ recv = NoBlock
        /\ status = "none")
  /\ "stash" \in own \/ (stash = <<>> /\ prev = <<>> /\ bucket_size = 0)
  /\ "sample" \in own \/
       (args = [size |-> 0, tree_size |-> 0, initial_offset |-> 0]
        /\ bucket = <<>>)
  /\ "lz4" \in own \/
       (payload = <<>> /\ cbuf = <<>> /\ out = <<>> /\ lz = 0 /\ ret = 0)
  /\ "serial" \in own \/ (sbucket = <<>> /\ strs = <<>> /\ dbucket = <<>>)

InitCodec ==
  /\ pc = "start"
  /\ block \in InputBlocks
  /\ entry = block
  /\ sent = block
  /\ recv = block
  /\ status = "none"
  /\ InitOthers({"codec"})

DoEncryptBlock ==
  /\ pc = "start"
  /\ \E rs \in StatusCodes, iv \in RandomIvs, es \in StatusCodes :
       LET r == EncryptBlock(block, rs, iv, es)
       IN  /\ block' = r.block
           /\ sent' = r.block
           /\ recv' = r.block
           /\ pc' = IF r.aborted THEN "aborted" ELSE "encrypted"
  /\ UNCHANGED <<entry, status>>
  /\ UNCHANGED <<stashVars, sampleVars, lz4Vars, serialVars>>

\* The untrusted server alters one byte of the stored ciphertext.
TamperData ==
  /\ pc = "encrypted"
  /\ \E i \in 1..DEFAULT_ORAM_DATA_SIZE, d \in FlipDeltas :
       block' = [block EXCEPT !.data[i] = ToUint8(block.data[i] + d)]
  /\ pc' = "stored"
  /\ UNCHANGED <<entry, sent, recv, status>>
  /\ UNCHANGED <<stashVars, sampleVars, lz4Vars, serialVars>>

\* The untrusted server alters one byte of the stored authentication tag.
TamperMac ==
  /\ pc = "encrypted"
  /\ \E i \in 1..MAC_SIZE, d \in FlipDeltas :
       block' = [block EXCEPT !.mac_tag[i] = ToUint8(block.mac_tag[i] + d)]
  /\ pc' = "stored"
  /\ UNCHANGED <<entry, sent, recv, status>>
  /\ UNCHANGED <<stashVars, sampleVars, lz4Vars, serialVars>>

DoDecryptBlock ==
  /\ pc \in {"encrypted", "stored"}
  /\ LET r == DecryptBlock(block)
     IN  /\ block' = r.block
         /\ status' = r.status
         /\ pc' = IF r.aborted THEN "decrypt_aborted" ELSE "decrypted"
  /\ recv' = block
  /\ UNCHANGED <<entry, sent>>
  /\ UNCHANGED <<stashVars, sampleVars, lz4Vars, serialVars>>

NextCodec == DoEncryptBlock \/ TamperData \/ TamperMac \/ DoDecryptBlock

SpecCodec == InitCodec /\ [][NextCodec]_vars

---------------------------------------------------------------------------
(* Claims about the codec *)

\* The block reached DecryptBlock as EncryptBlock left it.
Untampered == recv = sent

(* C1: codec round trip.  For a Normal or Dummy block, after EncryptBlock  *)
(* and then DecryptBlock (the provider's Decrypt inverting its Encrypt     *)
(* under the same iv) block_id, type and data are what they were before    *)
(* the two calls; a Dummy block has no field changed at all.               *)
C1_CodecRoundTrip ==
  (pc = "decrypted" /\ Untampered /\ entry.type \in {kNormal, kDummy}) =>
     /\ block.block_id = entry.block_id
     /\ block.type = entry.type
     /\ block.data = entry.data
     /\ (entry.type = kDummy => block = entry /\ sent = entry)

\* A Normal block whose payload the encryption really changed came back.
C1_Witness ==
  /\ pc = "decrypted" /\ Untampered
  /\ entry.type = kNormal
  /\ sent.data # entry.data
  /\ sent.mac_tag # entry.mac_tag
  /\ block.data = entry.data

(* C2: authentication failure detection.  When the data or the mac_tag of  *)
(* a Normal block produced by EncryptBlock is altered before DecryptBlock, *)
(* DecryptBlock ends in the fatal abort and leaves block.data as it was;   *)
(* block.data is written only when the provider's Decrypt reported kOK.    *)
C2_TamperIsFatal ==
  /\ (pc \in {"decrypted", "decrypt_aborted"} /\ sent.type = kNormal
      /\ (recv.data # sent.data \/ recv.mac_tag # sent.mac_tag))
       => (pc = "decrypt_aborted" /\ block = recv /\ status # "kOK")
  /\ (pc \in {"decrypted", "decrypt_aborted"} /\ block.data # recv.data)
       => status = "kOK"

\* A block with an altered ciphertext byte made DecryptBlock abort.
C2_Witness ==
  /\ pc = "decrypt_aborted"
  /\ sent.type = kNormal
  /\ recv.data # sent.data
  /\ recv.mac_tag = sent.mac_tag
  /\ status # "kOK"

---------------------------------------------------------------------------
(* PadStash *)

\* What one call of Cryptor::RandomBytes(buf, n) can do: report a failure,
\* or fill the n bytes of buf.
RandomByteValues == {kDummy, kNormal, 170}
RandomBytes(n) ==
  {[status |-> "kOK", bytes |-> Fill(n, v)] : v \in RandomByteValues}
    \cup {[status |-> "kInvalidOperation", bytes |-> Fill(n, 0)]}

\* The loop of PadStash from index i on; rnd holds the results of the
\* calls of RandomBytes((uint8_t*)&dummy, ORAM_BLOCK_SIZE) still to come.
RECURSIVE PadLoop(_, _, _, _)
PadLoop(s, i, size, rnd) ==
  IF ~(i < size)
  THEN [aborted |-> FALSE, stash |-> s]
  ELSE IF Head(rnd).status # "kOK"
  THEN [aborted |-> TRUE, stash |-> s]
  ELSE PadLoop(Append(s, BytesToBlock(Head(rnd).bytes)), i + 1, size, Tail(rnd))

PadStash_Resizes(s, size, rnd) ==
  IF Len(s) < size
  THEN PadLoop(s, Len(s), size, rnd)
  ELSE [aborted |-> FALSE, stash |-> SubSeq(s, 1, size)]

PadStash(s, size, rnd) ==
  LET stash_size == Len(s)
  IN  IF stash_size < size
      THEN PadLoop(s, stash_size, size, rnd)
      ELSE [aborted |-> FALSE, stash |-> s]

StashBlocks ==
  {Block(7, kNormal, Fill(IV_SIZE, 3), Fill(MAC_SIZE, 9),
         Fill(DEFAULT_ORAM_DATA_SIZE, 1)),
   Block(8, kDummy, Fill(IV_SIZE, 0), Fill(MAC_SIZE, 0),
         Fill(DEFAULT_ORAM_DATA_SIZE, 170))}

InitStash ==
  /\ pc = "start"
  /\ \E n \in 0..MaxStash : stash \in [1..n -> StashBlocks]
  /\ prev = stash
  /\ bucket_size \in 0..MaxBucketSize
  /\ InitOthers({"stash"})

\* PadStash(&stash, bucket_size), a first and then a second time
DoPadStash ==
  /\ pc \in {"start", "padded"}
  /\ \E rnd \in [1..Max(0, bucket_size - Len(stash)) -> RandomBytes(ORAM_BLOCK_SIZE)] :
       LET r == PadStash(stash, bucket_size, rnd)
       IN  /\ stash' = r.stash
           /\ pc' = IF r.aborted THEN "aborted"
                    ELSE IF pc = "start" THEN "padded" ELSE "padded_again"
  /\ prev' = stash
  /\ UNCHANGED bucket_size
  /\ UNCHANGED <<codecVars, sampleVars, lz4Vars, serialVars>>

NextStash == DoPadStash

SpecStash == InitStash /\ [][NextStash]_vars

Padded == pc \in {"padded", "padded_again"}

(* C3: every block PadStash appends is typed Dummy, whatever bytes the     *)
(* random source returns.                                                  *)
C3_AppendedAreDummy ==
  Padded => \A i \in (Len(prev) + 1)..Len(stash) : stash[i].type = kDummy

(* C4: after PadStash(s, n) the stash has length max(len(s), n) and its    *)
(* first len(s) elements are the original ones in their order; a stash     *)
(* with len(s) >= n is left unchanged, and so is the stash in a second     *)
(* application.                                                            *)
C4_PadLengthAndPrefix ==
  Padded =>
     /\ Len(stash) = Max(Len(prev), bucket_size)
     /\ SubSeq(stash, 1, Len(prev)) = prev
     /\ (Len(prev) >= bucket_size => stash = prev)
     /\ (pc = "padded_again" => stash = prev)

\* A short stash was padded, and padded again; an over-full one was kept.
C4_Witness ==
  /\ pc = "padded_again"
  /\ Len(stash) = bucket_size
  /\ Len(stash) >= 2
  /\ stash[1] \in StashBlocks
  /\ stash[Len(stash)] \notin StashBlocks

---------------------------------------------------------------------------
(* SampleRandomBucket *)

(* One iteration of the loop: the block built for index i.  size is the    *)
(* halved size.  The local block is not initialized, so its iv and         *)
(* mac_tag hold whatever the stack held (garbage); tail is what            *)
(* RandomBytes(block.data + 1, DEFAULT_ORAM_DATA_SIZE - 1) wrote.          *)
SampleBlock_TypeOffByOne(i, size, initial_offset, garbage, tail) ==
  Block(ToBlockId(i + initial_offset),
        IF i <= size THEN kNormal ELSE kDummy,
        Fill(IV_SIZE, garbage), Fill(MAC_SIZE, garbage),
        <<ToUint8(i + initial_offset)>> \o tail)

SampleBlock_IdWithoutIndex(i, size, initial_offset, garbage, tail) ==
  Block(ToBlockId(initial_offset),
        IF i < size THEN kNormal ELSE kDummy,
        Fill(IV_SIZE, garbage), Fill(MAC_SIZE, garbage),
        <<ToUint8(i + initial_offset)>> \o tail)

SampleBlock_MarkerWithoutOffset(i, size, initial_offset, garbage, tail) ==
  Block(ToBlockId(i + initial_offset),
        IF i < size THEN kNormal ELSE kDummy,
        Fill(IV_SIZE, garbage), Fill(MAC_SIZE, garbage),
        <<ToUint8(i)>> \o tail)

SampleBlock(i, size, initial_offset, garbage, tail) ==
  Block(ToBlockId(i + initial_offset),
        IF i < size THEN kNormal ELSE kDummy,
        Fill(IV_SIZE, garbage), Fill(MAC_SIZE, garbage),
        <<ToUint8(i + initial_offset)>> \o tail)

\* The loop from index i on; rnd holds the results of the calls of
\* RandomBytes still to come.
RECURSIVE SampleLoop(_, _, _, _, _, _, _)
SampleLoop(b, i, size, tree_size, initial_offset, garbage, rnd) ==
  IF ~(i < tree_size)
  THEN [aborted |-> FALSE, bucket |-> b]
  ELSE IF Head(rnd).status # "kOK"
  THEN [aborted |-> TRUE, bucket |-> b]
  ELSE SampleLoop(
         Append(b, SampleBlock(i, size, initial_offset, garbage, Head(rnd).bytes)),
         i + 1, size, tree_size, initial_offset, garbage, Tail(rnd))

\* Cryptor::RandomShuffle(bucket) with the permutation it drew
RandomShuffle(b, perm) == [k \in 1..Len(b) |-> b[perm[k]]]

\* shuffle: [status, perm], what RandomShuffle reports and the permutation.
SampleRandomBucket(size, tree_size, initial_offset, garbage, rnd, shuffle) ==
  LET half == size \div 2
      r    == SampleLoop(<<>>, 0, half, tree_size, initial_offset, garbage, rnd)
  IN  IF r.aborted
      THEN r
      ELSE IF shuffle.status # "kOK"
      THEN [aborted |-> TRUE, bucket |-> r.bucket]
      ELSE [aborted |-> FALSE, bucket |-> RandomShuffle(r.bucket, shuffle.perm)]

\* initial_offset is a size_t: also values at and beyond the end of the
\* range of block_id.
Offsets == {0, 100, 254, Pow2(BlockIdBits) - 2, Pow2(BlockIdBits) + 5}
Garbage == {0, 204}
PayloadTails ==
  {[status |-> "kOK", bytes |-> Fill(DEFAULT_ORAM_DATA_SIZE - 1, 9)],
   [status |-> "kInvalidOperation", bytes |-> Fill(DEFAULT_ORAM_DATA_SIZE - 1, 0)]}

InitSample ==
  /\ pc = "start"
  /\ args \in [size : 0..MaxSize, tree_size : 0..MaxTreeSize,
               initial_offset : Offsets]
  /\ bucket = <<>>
  /\ InitOthers({"sample"})

DoSampleRandomBucket ==
  /\ pc = "start"
  /\ \E g \in Garbage, rnd \in [1..args.tree_size -> PayloadTails],
        st \in StatusCodes, perm \in Permutations(1..args.tree_size) :
       LET r == SampleRandomBucket(args.size, args.tree_size,
                                   args.initial_offset, g, rnd,
                                   [status |-> st, perm |-> perm])
       IN  /\ bucket' = r.bucket
           /\ pc' = IF r.aborted THEN "aborted" ELSE "sampled"
  /\ UNCHANGED args
  /\ UNCHANGED <<codecVars, stashVars, lz4Vars, serialVars>>

NextSample == DoSampleRandomBucket

SpecSample == InitSample /\ [][NextSample]_vars

NormalAt == {k \in 1..Len(bucket) : bucket[k].type = kNormal}
Half == args.size \div 2

(* C5 as stated: the returned bucket has exactly tree_size blocks, exactly *)
(* floor(size/2) of them typed Normal and all the others typed Dummy, for  *)
(* every size and tree_size.                                               *)
C5_Original ==
  pc = "sampled" =>
     /\ Len(bucket) = args.tree_size
     /\ Cardinality(NormalAt) = Half
     /\ \A k \in 1..Len(bucket) : bucket[k].type \in {kNormal, kDummy}

(* C5, amended: the returned bucket has exactly tree_size blocks, exactly  *)
(* min(floor(size/2), tree_size) of them typed Normal and all the others   *)
(* typed Dummy.                                                            *)
C5_TypeCounts ==
  pc = "sampled" =>
     /\ Len(bucket) = args.tree_size
     /\ Cardinality(NormalAt) = Min(Half, args.tree_size)
     /\ \A k \in 1..Len(bucket) : bucket[k].type \in {kNormal, kDummy}

\* A bucket with Normal and Dummy blocks, a Dummy one before a Normal one.
C5_Witness ==
  /\ pc = "sampled"
  /\ Half >= 1 /\ Half < args.tree_size
  /\ Cardinality(NormalAt) = Half
  /\ bucket[1].type = kDummy

(* C6 as stated: every Normal block has a block_id in                      *)
(* [offset, offset + floor(size/2)) and no two Normal blocks share a       *)
(* block_id, for every size, tree_size and offset.                         *)
C6_Original ==
  pc = "sampled" =>
     /\ \A k \in NormalAt :
          /\ args.initial_offset <= bucket[k].block_id
          /\ bucket[k].block_id < args.initial_offset + Half
     /\ \A k, l \in NormalAt : bucket[k].block_id = bucket[l].block_id => k = l

\* The ids offset .. offset + min(floor(size/2), tree_size) - 1 all fit
\* the type of block_id.
IdsFit == args.initial_offset + Min(Half, args.tree_size) <= Pow2(BlockIdBits)

(* C6, amended: when offset + min(floor(size/2), tree_size) does not       *)
(* exceed the range of block_id (no id wraps around), every Normal block   *)
(* has a block_id in [offset, offset + floor(size/2)) and no two Normal    *)
(* blocks share a block_id, whatever permutation the shuffle applied.      *)
C6_NormalIds ==
  (pc = "sampled" /\ IdsFit) =>
     /\ \A k \in NormalAt :
          /\ args.initial_offset <= bucket[k].block_id
          /\ bucket[k].block_id < args.initial_offset + Half
     /\ \A k, l \in NormalAt : bucket[k].block_id = bucket[l].block_id => k = l

\* Two Normal blocks, shuffled out of their order of creation.
C6_Witness ==
  /\ pc = "sampled" /\ IdsFit
  /\ args.initial_offset > 0
  /\ Cardinality(NormalAt) >= 2
  /\ \E k, l \in NormalAt : k < l /\ bucket[k].block_id > bucket[l].block_id

(* C10 as stated: the first payload byte of every Normal block equals its  *)
(* block_id, including when that id exceeds 255.                           *)
C10_Original ==
  pc = "sampled" => \A k \in NormalAt : bucket[k].data[1] = bucket[k].block_id

(* C10, amended: the first payload byte of every Normal block equals its   *)
(* block_id modulo 256, the low byte of the id.                            *)
C10_PayloadMarker ==
  pc = "sampled" =>
     \A k \in NormalAt : bucket[k].data[1] = bucket[k].block_id % 256

\* A Normal block whose id exceeds 255 and its marker, the id's low byte.
C10_Witness ==
  /\ pc = "sampled"
  /\ \E k \in NormalAt :
       /\ bucket[k].block_id > 255
       /\ bucket[k].data[1] = bucket[k].block_id % 256
       /\ bucket[k].data[1] # 0

---------------------------------------------------------------------------
(* The compression library (lz4.h), by its contract: a lossless codec with *)
(* bounded output.  LZ4_compress_default returns the compressed length, or *)
(* 0 when the output does not fit dstCapacity; LZ4_decompress_safe returns *)
(* the decompressed length, or a negative value when the input is          *)
(* malformed or the output does not fit dstCapacity.  The stream of the    *)
(* model is a sequence of runs <<count, byte>>, so that repetitive input   *)
(* compresses to a fraction of its length as it does under LZ4.            *)

RECURSIVE RunLength(_, _)
RunLength(s, b) ==
  IF s = <<>> \/ Head(s) # b THEN 0 ELSE 1 + RunLength(Tail(s), b)

RECURSIVE RunsOf(_)
RunsOf(s) ==
  IF s = <<>> THEN <<>>
  ELSE LET n == Min(RunLength(s, Head(s)), 255)
       IN  <<n, Head(s)>> \o RunsOf(SubSeq(s, n + 1, Len(s)))

LZ4_compressBound(n) == 2 * n

LZ4_compress_default(src, srcSize, dstCapacity) ==
  LET c == RunsOf(SubSeq(src, 1, srcSize))
  IN  IF Len(c) > dstCapacity
      THEN [ret |-> 0, dst |-> <<>>]
      ELSE [ret |-> Len(c), dst |-> c]

RECURSIVE Expand(_, _, _)
Expand(src, acc, dstCapacity) ==
  IF src = <<>> THEN [ret |-> Len(acc), dst |-> acc]
  ELSE IF Len(src) < 2 \/ src[1] = 0 THEN [ret |-> -1, dst |-> acc]
  ELSE IF Len(acc) + src[1] > dstCapacity THEN [ret |-> -1, dst |-> acc]
  ELSE Expand(SubSeq(src, 3, Len(src)), acc \o Fill(src[1], src[2]), dstCapacity)

LZ4_decompress_safe(src, compressedSize, dstCapacity) ==
  Expand(SubSeq(src, 1, compressedSize), <<>>, dstCapacity)

---------------------------------------------------------------------------
(* Compression adapter *)

DataCompress(data, data_size) ==
  LET max_allowed_size == LZ4_compressBound(data_size)
      r == LZ4_compress_default(data, data_size, max_allowed_size)
      compressed_size == ToSizeT(r.ret)
  IN  [aborted |-> compressed_size = 0, out |-> r.dst, ret |-> compressed_size]

\* lz is what the library returned (an int), ret the size_t DataDecompress
\* made of it.
DataDecompress(data, data_size) ==
  LET max_allowed_size == ToSizeT(data_size * 2)
      r == LZ4_decompress_safe(data, data_size, max_allowed_size)
      decompressed_size == ToSizeT(r.ret)
  IN  [aborted |-> decompressed_size = 0, out |-> r.dst, lz |-> r.ret,
       ret |-> decompressed_size]

PayloadBytes == {0, 1}

InitCompress ==
  /\ pc = "start"
  /\ payload \in [1..CompressLen -> PayloadBytes]
  /\ cbuf = <<>>
  /\ out = <<>>
  /\ lz = 0
  /\ ret = 0
  /\ InitOthers({"lz4"})

DoDataCompress ==
  /\ pc = "start"
  /\ LET r == DataCompress(payload, Len(payload))
     IN  /\ cbuf' = r.out
         /\ pc' = IF r.aborted THEN "aborted" ELSE "compressed"
  /\ UNCHANGED <<payload, out, lz, ret>>
  /\ UNCHANGED <<codecVars, stashVars, sampleVars, serialVars>>

\* The storage loses the end of the compressed bytes.
TruncateStored ==
  /\ pc = "compressed"
  /\ \E n \in 0..(Len(cbuf) - 1) : cbuf' = SubSeq(cbuf, 1, n)
  /\ pc' = "corrupted"
  /\ UNCHANGED <<payload, out, lz, ret>>
  /\ UNCHANGED <<codecVars, stashVars, sampleVars, serialVars>>

\* The storage alters one byte of the compressed bytes.
AlterStored ==
  /\ pc = "compressed"
  /\ \E i \in 1..Len(cbuf), v \in {0, 9} :
       /\ cbuf[i] # v
       /\ cbuf' = [cbuf EXCEPT ![i] = v]
  /\ pc' = "corrupted"
  /\ UNCHANGED <<payload, out, lz, ret>>
  /\ UNCHANGED <<codecVars, stashVars, sampleVars, serialVars>>

DoDataDecompress ==
  /\ pc \in {"compressed", "corrupted"}
  /\ LET r == DataDecompress(cbuf, Len(cbuf))
     IN  /\ out' = r.out
         /\ lz' = r.lz
         /\ ret' = r.ret
         /\ pc' = IF r.aborted THEN "decompress_aborted"
                  ELSE IF pc = "compressed" THEN "decompressed"
                  ELSE "decompressed_corrupted"
  /\ UNCHANGED <<payload, cbuf>>
  /\ UNCHANGED <<codecVars, stashVars, sampleVars, serialVars>>

NextCompress ==
  DoDataCompress \/ TruncateStored \/ AlterStored \/ DoDataDecompress

SpecCompress == InitCompress /\ [][NextCompress]_vars

(* C7: compression round trip.  For every payload p, DataDecompress        *)
(* applied to the output of DataCompress(p) and its compressed length      *)
(* returns len(p) and writes exactly the bytes of p.                       *)
C7_CompressionRoundTrip ==
  pc = "decompressed" => (ret = Len(payload) /\ out = payload)

(* C8: decompression failures are fatal.  Whenever the library's           *)
(* decompression call reports failure (zero or a negative value),          *)
(* DataDecompress ends in the fatal abort and returns no size.             *)
C8_DecompressFailureIsFatal ==
  (pc \in {"decompressed", "decompressed_corrupted", "decompress_aborted"}
     /\ lz <= 0) => pc = "decompress_aborted"

---------------------------------------------------------------------------
(* Serialization *)

\* PANIC_IF(data.size() != ORAM_BLOCK_SIZE), then memcpy into the block
ConvertToBlock(data) ==
  IF Len(data) # ORAM_BLOCK_SIZE
  THEN [aborted |-> TRUE, block |-> NoBlock]
  ELSE [aborted |-> FALSE, block |-> BytesToBlock(SubSeq(data, 1, ORAM_BLOCK_SIZE))]

ConvertToString_OneByteShort(b) ==
  SubSeq(BlockToBytes(b), 1, ORAM_BLOCK_SIZE - 1)

\* data->resize(ORAM_BLOCK_SIZE), then memcpy from the block
ConvertToString(b) == SubSeq(BlockToBytes(b), 1, ORAM_BLOCK_SIZE)

SerializeToStringVector(b) == [i \in 1..Len(b) |-> ConvertToString(b[i])]

\* The loop of DeserializeFromStringVector from index i (from 1) on
RECURSIVE DeserializeLoop(_, _, _)
DeserializeLoop(data, i, ans) ==
  IF i > Len(data)
  THEN [aborted |-> FALSE, bucket |-> ans]
  ELSE LET r == ConvertToBlock(data[i])
       IN  IF r.aborted
           THEN [aborted |-> TRUE, bucket |-> ans]
           ELSE DeserializeLoop(data, i + 1, Append(ans, r.block))

DeserializeFromStringVector(data) == DeserializeLoop(data, 1, <<>>)

SerialBlocks ==
  {Block(0, kDummy, Fill(IV_SIZE, 0), Fill(MAC_SIZE, 0),
         Fill(DEFAULT_ORAM_DATA_SIZE, 0)),
   Block(258, kNormal, Fill(IV_SIZE, 9), Fill(MAC_SIZE, 200),
         [i \in 1..DEFAULT_ORAM_DATA_SIZE |-> i]),
   Block(Pow2(BlockIdBits) - 1, kNormal, [i \in 1..IV_SIZE |-> i],
         [i \in 1..MAC_SIZE |-> 255 - i], Fill(DEFAULT_ORAM_DATA_SIZE, 255)),
   Block(255, kDummy, Fill(IV_SIZE, 170), [i \in 1..MAC_SIZE |-> i],
         [i \in 1..DEFAULT_ORAM_DATA_SIZE |-> 255 - i])}

InitSerial ==
  /\ pc = "start"
  /\ \E n \in 0..MaxBucketLen : sbucket \in [1..n -> SerialBlocks]
  /\ strs = <<>>
  /\ dbucket = <<>>
  /\ InitOthers({"serial"})

DoSerialize ==
  /\ pc = "start"
  /\ strs' = SerializeToStringVector(sbucket)
  /\ pc' = "serialized"
  /\ UNCHANGED <<sbucket, dbucket>>
  /\ UNCHANGED <<codecVars, stashVars, sampleVars, lz4Vars>>

\* The storage or the transport loses or adds a byte of one string.
ResizeStored ==
  /\ pc = "serialized"
  /\ \E i \in 1..Len(strs) :
       \/ strs' = [strs EXCEPT ![i] = SubSeq(strs[i], 1, Len(strs[i]) - 1)]
       \/ strs' = [strs EXCEPT ![i] = Append(strs[i], 0)]
  /\ pc' = "corrupted"
  /\ UNCHANGED <<sbucket, dbucket>>
  /\ UNCHANGED <<codecVars, stashVars, sampleVars, lz4Vars>>

DoDeserialize ==
  /\ pc \in {"serialized", "corrupted"}
  /\ LET r == DeserializeFromStringVector(strs)
     IN  /\ dbucket' = r.bucket
         /\ pc' = IF pc = "serialized"
                  THEN IF r.aborted THEN "deserialize_aborted" ELSE "deserialized"
                  ELSE IF r.aborted THEN "deserialize_aborted_corrupted"
                  ELSE "deserialized_corrupted"
  /\ UNCHANGED <<sbucket, strs>>
  /\ UNCHANGED <<codecVars, stashVars, sampleVars, lz4Vars>>

NextSerial == DoSerialize \/ ResizeStored \/ DoDeserialize

SpecSerial == InitSerial /\ [][NextSerial]_vars

(* C9: serialization round trip.  SerializeToStringVector(B) yields len(B) *)
(* strings of exactly ORAM_BLOCK_SIZE bytes each, and                      *)
(* DeserializeFromStringVector of that result returns a bucket equal to B  *)
(* block for block and in the same order, without reaching the fatal       *)
(* length check.                                                           *)
C9_SerializationRoundTrip ==
  /\ pc \in {"serialized", "deserialized", "deserialize_aborted"} =>
       /\ Len(strs) = Len(sbucket)
       /\ \A i \in 1..Len(strs) : Len(strs[i]) = ORAM_BLOCK_SIZE
  /\ pc # "deserialize_aborted"
  /\ pc = "deserialized" => dbucket = sbucket

\* A bucket of two different blocks, a Normal and a Dummy one, came back.
C9_Witness ==
  /\ pc = "deserialized"
  /\ Len(sbucket) >= 2
  /\ sbucket[1].type = kNormal /\ sbucket[1].block_id > 255
  /\ sbucket[2].type = kDummy
  /\ strs[1] # strs[2]
  /\ dbucket = sbucket

=============================================================================
